---- MODULE Spec2Model ----
(***************************************************************************)
(* Model of the checkpointed batch-extraction drivers of                   *)
(* backend/src/scripts:                                                    *)
(*   CROG  processCROGQuestionsWithMistralSequential.py                    *)
(*   EXAM  processExamPacksWithMistral.py                                  *)
(*   RCM   processRCExamPacksWithMistralSequential.py                      *)
(*   RCD   process_RC_direct.py                                            *)
(* and of the response-text parsing they share (first '{' .. last '}',     *)
(* json.loads, manually_extract_components).                               *)
(*                                                                         *)
(* Specifications:                                                         *)
(*   Spec        the runs of the four drivers                              *)
(*   SpecParse   the parsing of one response text                          *)
(*   SpecLoad    the loading of the checkpoint file                        *)
(*   SpecSelect  the selection of the work list from the arguments         *)
(*   SpecCall    the service call (also processWithOllama_specific.py)     *)
(*   SpecValid   combineResults.is_valid_result                            *)
(*   SpecOverlap two invocations of a driver on one checkpoint file        *)
(*   SpecCombine combineResults.process_results and fix_result             *)
(*                                                                         *)
(* Environment: the process may be killed between any two file-system     *)
(* effects; a write to a file may raise (before or after truncation); the *)
(* service call may raise RequestException.  Reading a file that holds    *)
(* complete JSON succeeds.                                                 *)
(***************************************************************************)
EXTENDS Integers, Sequences, FiniteSets, TLC

\* ---- bounds of the model ------------------------------------------------
NumFiles == 2
QuestionsPerFile == 2
MaxRuns == 2
MaxIOFaults == 2
MaxServiceFailures == 4
BatchSize == 2

\* ---- program constants --------------------------------------------------
MAX_RETRIES == 3
TEST_MODE_LIMIT == 3

NoneV == -1

Drivers == {"CROG", "EXAM", "RCM", "RCD"}
IsRC(d) == d \in {"RCM", "RCD"}

Files == 1..NumFiles
Questions == 1..QuestionsPerFile
\* an item is <<file, 0>> (the file itself) or <<file, q>> (question q of an RC passage)
Items == Files \X (0..QuestionsPerFile)

VARIABLES
    driver,               \* which script runs (fixed for a behaviour)
    run,                  \* number of invocations started so far
    pc,                   \* position of the running process ("stopped" = no process)
    html_files,           \* the selected, sorted work list of this run
    i,                    \* 1-based index of the for loop over html_files
    q,                    \* RC: 1-based index of the loop over rc_data["questions"]
    processed_files,      \* in-memory list
    processed_questions,  \* in-memory list (RC)
    retry_count,          \* generate_response's retry_count
    result,               \* what generate_response returned for the item in flight
    status,               \* per item status of this run
    batch_results,        \* EXAM
    all_results,          \* EXAM
    combined_results,     \* EXAM
    out,                  \* the output directory: one file per item
    ckptFile,             \* CHECKPOINT_FILE
    errLog,               \* ERROR_LOG_FILE
    aggFile,              \* EXAM: all_processed_questions.json
    faults,               \* number of I/O faults injected so far
    svcFails,             \* number of failed service calls so far
    loaded,               \* history: identifiers the run loaded from the checkpoint
    orphan,               \* history: items persisted but not checkpointed at run start
    lastSaveOk,           \* history: the most recent save_checkpoint call of this run completed
    written,              \* history: output files opened for writing by this run
    gotResult,            \* history: items whose extraction returned a usable result
    failed3,              \* history: items whose service call failed 3 times in this run
    leadProse,            \* SpecParse: text before the body of the response
    body,                 \* SpecParse: the body (a JSON object, or plain text)
    trailProse,           \* SpecParse: text after the body
    parsed,               \* SpecParse: what the parsing code made of the response
    args,                 \* SpecSelect: the command-line arguments of the run
    checked,              \* SpecValid: a loaded result file and what is_valid_result said
    invocations,          \* SpecOverlap: the invocations running side by side
    final                 \* SpecCombine: what process_results has written

driverVars == <<driver, run, pc, html_files, i, q, processed_files, processed_questions,
                retry_count, result, status, batch_results, all_results, combined_results,
                out, ckptFile, errLog, aggFile, faults, svcFails, loaded, orphan, lastSaveOk,
                written, gotResult, failed3>>
textVars == <<leadProse, body, trailProse, parsed>>
auxVars == <<args, checked, invocations, final>>
vars == <<driverVars, textVars, auxVars>>

\* ---- sequences ------------------------------------------------------------
Min(a, b) == IF a < b THEN a ELSE b
Range(s) == {s[k] : k \in DOMAIN s}
Contains(s, x) == \E k \in DOMAIN s : s[k] = x
\* Python s[a:b] for 0 <= a, 0 <= b
Slice(s, a, b) == SubSeq(s, a + 1, Min(b, Len(s)))

RECURSIVE Sorted(_)
\* sorted(glob.glob(...)): file names are modelled by their rank
Sorted(S) == IF S = {} THEN <<>>
             ELSE LET m == CHOOSE x \in S : \A y \in S : x <= y
                  IN <<m>> \o Sorted(S \ {m})

RECURSIVE FilterSeq(_, _)
FilterSeq(s, keep) == IF s = <<>> THEN <<>>
                      ELSE (IF Head(s) \in keep THEN <<Head(s)>> ELSE <<>>)
                           \o FilterSeq(Tail(s), keep)

\* ---- files on disk --------------------------------------------------------
AbsentOut == [st |-> "absent", err |-> FALSE]
EmptyCkpt == [st |-> "absent", files |-> <<>>, questions |-> <<>>]
CorruptCkpt == [st |-> "corrupt", files |-> <<>>, questions |-> <<>>]
\* the aggregate file; held is history: the question numbers a completely
\* written aggregate file has ever held
EmptyAgg == [st |-> "absent", entries |-> <<>>, held |-> {}]
\* open(all_results_file, 'w'): the file is truncated
CorruptAgg == [st |-> "corrupt", entries |-> <<>>, held |-> aggFile.held]
NoResult == [kind |-> "none", error |-> FALSE, complete |-> FALSE, question_type |-> ""]

\* load_checkpoint / read_checkpoint: a missing or undecodable file yields
\* {"processed_files": []}
load_checkpoint(f) == IF f.st = "valid" THEN [files |-> f.files, questions |-> f.questions]
                      ELSE [files |-> <<>>, questions |-> <<>>]

\* identifiers recorded in the persisted checkpoint
CkptFiles == Range(load_checkpoint(ckptFile).files)
CkptQuestions == Range(load_checkpoint(ckptFile).questions)
InCkpt(x) == IF x[2] = 0 THEN x[1] \in CkptFiles ELSE x \in CkptQuestions

\* ---- response text ------------------------------------------------------
\* A response text is a sequence of tokens.  A token stands for a piece of text
\* the code searches for, or for other non-blank text:
\*   "{" "}" ":" ","   the characters themselves
\*   "E"               the two characters  ",   (end of a string value, comma)
\*   "v"               any other text (a string value, prose)
\*   "m_arg" ...       a quoted key: "argument", "question_stem" / "question_text" /
\*                     "question", "options", "A".."E", "correct_answer", "explanation"
\*   "nl" "w_q" "w_ans" "w_expl" "A"   (EXAM heuristic) newline, the words
\*                     question / answer / explanation, an option letter
Markers == {"m_arg", "m_stem", "m_opts", "m_A", "m_ans", "m_expl"}
\* tokens the prose around a response body is drawn from
ProseAlphabet == {"{", "}", ":", "v", "E", "m_stem", "w_expl"}
\* metadata.get("type", "")
MetaTypes == {"", "PS", "DS", "Data Sufficiency"}

MaxProse == 1

BoundedSeq(S, n) == UNION {[1..k -> S] : k \in 0..n}

\* str.find(tok, from): 0-based index of the first occurrence at or after from, or -1
RECURSIVE Find(_, _, _)
Find(s, tok, from) ==
    IF from >= Len(s) THEN -1
    ELSE IF s[from + 1] = tok THEN from
    ELSE Find(s, tok, from + 1)

\* str.rfind(tok): 0-based index of the last occurrence, or -1
RECURSIVE RFindFrom(_, _, _)
RFindFrom(s, tok, k) ==
    IF k < 0 THEN -1
    ELSE IF s[k + 1] = tok THEN k
    ELSE RFindFrom(s, tok, k - 1)
RFind(s, tok) == RFindFrom(s, tok, Len(s) - 1)

\* json.loads on a token sequence: recursive descent over
\*   Object ::= "{" "}" | "{" Member (Sep Member)* "}"
\*   Member ::= Marker ":" Value      Value ::= "v" | Object
\*   Sep    ::= "E" after a string value, "," after an object
\* ParseX(s, p) is the 1-based position after the parsed X, or 0 (JSONDecodeError)
RECURSIVE ParseObject(_, _), ParseMembers(_, _)
ParseValue(s, p) ==
    IF p > Len(s) THEN 0
    ELSE IF s[p] = "v" THEN p + 1
    ELSE IF s[p] = "{" THEN ParseObject(s, p)
    ELSE 0
ParseObject(s, p) ==
    IF p + 1 > Len(s) \/ s[p] # "{" THEN 0
    ELSE IF s[p + 1] = "}" THEN p + 2
    ELSE ParseMembers(s, p + 1)
ParseMembers(s, p) ==
    IF p + 2 > Len(s) \/ s[p] \notin Markers \/ s[p + 1] # ":" THEN 0
    ELSE LET e == ParseValue(s, p + 2)
         IN IF e = 0 \/ e > Len(s) THEN 0
            ELSE IF s[e] = "}" THEN e + 1
            ELSE IF (s[e] = "E" /\ s[e - 1] = "v") \/ (s[e] = "," /\ s[e - 1] = "}")
                 THEN ParseMembers(s, e + 1)
            ELSE 0

\* nesting depth of position p (number of unclosed "{" before p)
RECURSIVE Depth(_, _)
Depth(s, p) ==
    IF p <= 1 THEN 0
    ELSE Depth(s, p - 1) + (IF s[p - 1] = "{" THEN 1 ELSE IF s[p - 1] = "}" THEN -1 ELSE 0)

TopKeys(s) == {s[p] : p \in {k \in DOMAIN s : s[k] \in Markers /\ Depth(s, k) = 1}}

JSONDecodeError == [ok |-> FALSE, keys |-> {}, text |-> <<>>]
json_loads(s) ==
    IF Len(s) >= 2 /\ ParseObject(s, 1) = Len(s) + 1
    THEN [ok |-> TRUE, keys |-> TopKeys(s), text |-> s]
    ELSE JSONDecodeError

\* variant: the slice stops before the last }
end_idx_NoPlusOne(t) == RFind(t, "}")

\* "Find the first { and the last }"
start_idx(t) == Find(t, "{", 0)
end_idx(t) == RFind(t, "}") + 1
HasDelimiters(t) == start_idx(t) >= 0 /\ end_idx(t) > start_idx(t)
json_str(t) == Slice(t, start_idx(t), end_idx(t))

\* the structured path: slice and parse; NoJson when the delimiters are not found
NoJson == [ok |-> FALSE, keys |-> {"no_delimiters"}, text |-> <<>>]
ExtractJson(t) == IF HasDelimiters(t) THEN json_loads(json_str(t)) ELSE NoJson

\* ---- results of generate_response ----------------------------------------
\* key names: "stem" is question_stem (CROG), question_text (RC), question (EXAM)
KeyOf(m) == CASE m = "m_arg" -> "argument"
              [] m = "m_stem" -> "stem"
              [] m = "m_opts" -> "options"
              [] m = "m_ans" -> "correct_answer"
              [] m = "m_expl" -> "explanation"
              [] OTHER -> "A"
\* required_keys of each script
RequiredKeys(d) ==
    IF d = "CROG"
    THEN {"argument", "stem", "options", "correct_answer", "explanation", "question_type"}
    ELSE {"stem", "options", "correct_answer", "explanation", "question_type"}
FieldNames == {"argument", "stem", "A", "correct_answer", "explanation"}
NoFields == [k \in FieldNames |-> <<>>]

\* one "Look for ..." block of manually_extract_components (CROG, RC):
\* the text between the first ':' after the marker and the next '",'
ExtractField(text, m, default) ==
    LET ms == Find(text, m, 0)
    IN IF ms < 0 THEN default
       ELSE LET vs == Find(text, ":", ms) + 1
                ve == Find(text, "E", vs)
            IN IF ve >= 0 THEN Slice(text, vs, ve) ELSE default

\* "Look for options": the section from "options" to the next '}'
ExtractOptionA(text, default) ==
    LET os == Find(text, "m_opts", 0)
    IN IF os < 0 THEN default
       ELSE ExtractField(Slice(text, os, Find(text, "}", os) + 1), "m_A", default)

\* variant: a key is present only when its marker was found in the text
manually_extract_CROG_FoundOnly(text) ==
    [kind |-> "heuristic", error |-> FALSE,
     keys |-> {"question_type", "metadata", "answer_stats", "session_stats",
               "extraction_note"}
              \cup {KeyOf(m) : m \in {k \in Markers : Contains(text, k)}},
     fields |-> NoFields]

\* CROG manually_extract_components: every key starts out as ""
manually_extract_CROG(text) ==
    [kind |-> "heuristic", error |-> FALSE,
     keys |-> RequiredKeys("CROG") \cup {"metadata", "answer_stats", "session_stats",
                                         "extraction_note"},
     fields |-> [argument |-> ExtractField(text, "m_arg", <<>>),
                 stem |-> ExtractField(text, "m_stem", <<>>),
                 A |-> ExtractOptionA(text, <<>>),
                 correct_answer |-> ExtractField(text, "m_ans", <<>>),
                 explanation |-> ExtractField(text, "m_expl", <<>>)]]

\* RC manually_extract_components: question_text, options and correct_answer start
\* out as the values scraped from the HTML (token "src"), explanation as ""
manually_extract_RC(text) ==
    [kind |-> "heuristic", error |-> FALSE,
     keys |-> RequiredKeys("RCM") \cup {"passage_text", "rc_number", "question_number",
                                        "metadata", "answer_stats", "session_stats",
                                        "extraction_note"},
     fields |-> [argument |-> <<>>,
                 stem |-> ExtractField(text, "m_stem", <<"src">>),
                 A |-> ExtractOptionA(text, <<"src">>),
                 correct_answer |-> ExtractField(text, "m_ans", <<"src">>),
                 explanation |-> ExtractField(text, "m_expl", <<>>)]]

\* text.split('\n')
RECURSIVE SplitLines(_)
SplitLines(t) ==
    LET k == Find(t, "nl", 0)
    IN IF k < 0 THEN <<t>>
       ELSE <<Slice(t, 0, k)>> \o SplitLines(Slice(t, k + 1, Len(t)))

Adjacent(s, a, b) == \E k \in 1..(Len(s) - 1) : s[k] = a /\ s[k + 1] = b
is_ds(mtype) == mtype \in {"Data Sufficiency", "DS"}

\* EXAM manually_extract_components: a key is set only when its marker is found
\* (the model keeps which keys are set, not their values)
manually_extract_EXAM(text, mtype) ==
    LET lines == SplitLines(text)
        n == Len(lines)
        HasQ(l) == \E k \in DOMAIN l : l[k] \in {"w_q", "m_stem"}
        question == \E k \in 1..n :
                        /\ HasQ(lines[k])
                        /\ \/ (k + 1 <= n /\ lines[k + 1] # <<>>)
                           \/ Contains(lines[k], ":")
        options == is_ds(mtype) \/ Adjacent(text, "A", ":")
        answer == \E k \in 1..n :
                        /\ Adjacent(lines[k], "w_ans", ":")
                        /\ LET c == Find(lines[k], ":", 0)
                           IN c + 2 <= Len(lines[k]) /\ lines[k][c + 2] = "A"
        explanation == \E k \in 1..n : Adjacent(lines[k], "w_expl", ":")
    IN [kind |-> "heuristic", error |-> FALSE,
        keys |-> {"answer_stats", "session_stats", "question_type"}
                 \cup (IF question THEN {"stem"} ELSE {})
                 \cup (IF options THEN {"options"} ELSE {})
                 \cup (IF answer THEN {"correct_answer"} ELSE {})
                 \cup (IF explanation THEN {"explanation"} ELSE {}),
        fields |-> NoFields]

ErrorResult == [kind |-> "error", error |-> TRUE, keys |-> {"error"}, fields |-> NoFields]
StructuredResult(js) ==
    [kind |-> "structured", error |-> FALSE,
     keys |-> {KeyOf(m) : m \in js.keys}
              \cup {"question_type", "answer_stats", "session_stats"},
     fields |-> NoFields]

manually_extract_components(d, text, mtype) ==
    IF d = "CROG" THEN manually_extract_CROG(text)
    ELSE IF d = "RCM" THEN manually_extract_RC(text)
    ELSE manually_extract_EXAM(text, mtype)

\* generate_response once the HTTP call has returned response_text
\* CROG / RCM: anything that is not a complete structured result goes to the
\* heuristic extraction
generate_response_sequential(d, text, mtype) ==
    IF HasDelimiters(text)
    THEN LET js == json_loads(json_str(text))
         IN IF js.ok
            THEN IF RequiredKeys(d) \subseteq StructuredResult(js).keys
                 THEN StructuredResult(js)
                 ELSE manually_extract_components(d, text, mtype)
            ELSE manually_extract_components(d, text, mtype)
    ELSE manually_extract_components(d, text, mtype)

\* EXAM: missing keys, invalid JSON and missing delimiters each return an
\* {"error": ...} dictionary (the heuristic result is only embedded as
\* "extracted_text" of the invalid-JSON error)
generate_response_EXAM(d, text, mtype) ==
    IF HasDelimiters(text)
    THEN LET js == json_loads(json_str(text))
         IN IF js.ok
            THEN IF RequiredKeys(d) \subseteq StructuredResult(js).keys
                 THEN StructuredResult(js)
                 ELSE [ErrorResult EXCEPT !.keys = {"error", "partial_json", "raw_response"}]
            ELSE [ErrorResult EXCEPT !.keys = {"error", "raw_response", "extracted_text"}]
    ELSE [ErrorResult EXCEPT !.keys = {"error", "raw_response"}]

generate_response(d, text, mtype) ==
    IF d = "EXAM" THEN generate_response_EXAM(d, text, mtype)
    ELSE generate_response_sequential(d, text, mtype)

\* well-formed JSON objects a response may carry
FullObject == <<"{", "m_arg", ":", "v", "E", "m_stem", ":", "v", "E",
                "m_opts", ":", "{", "m_A", ":", "v", "}", ",",
                "m_ans", ":", "v", "E", "m_expl", ":", "v", "}">>
Objects == { <<"{", "}">>,
             <<"{", "m_stem", ":", "v", "}">>,
             <<"{", "m_opts", ":", "{", "m_A", ":", "v", "}", "}">>,
             FullObject }
\* responses the service returns in the driver model: a complete object inside
\* prose, no delimiters, invalid JSON between the delimiters, missing keys
SampleTexts == { <<"v">> \o FullObject \o <<"v">>,
                 <<"v", "m_stem", ":", "v", "E">>,
                 <<"{", "v", "}">>,
                 <<"{", "m_stem", ":", "v", "}">> }

\* what generate_response makes of each of these responses
Responses ==
    [d \in {"CROG", "EXAM", "RCM"} |->
        [text \in SampleTexts |->
            [mtype \in MetaTypes |-> generate_response(d, text, mtype)]]]

\* bodies without a JSON object: nothing, a quoted key with its value, the plain
\* layout the EXAM heuristic looks for
PlainBodies == { <<>>,
                 <<"m_stem", ":", "v", "E">>,
                 <<"w_q", ":", "v", "nl", "w_ans", ":", "A">> }

\* ---- question_type and the Data Sufficiency options ------------------------
\* the "question_type" member of the object the service returned
\* ("absent": the object has no such member)
ResponseTypes == {"absent", "Data Sufficiency", "Problem Solving"}

\* question_type of a structured result: CROG and RC force their own type;
\* EXAM keeps the response's, else tests  "Data Sufficiency" in metadata type
structured_question_type(d, qt, mtype) ==
    IF d = "CROG" THEN "Critical Reasoning"
    ELSE IF d = "RCM" THEN "Reading Comprehension"
    ELSE IF qt # "absent" THEN qt
    ELSE IF mtype = "Data Sufficiency" THEN "Data Sufficiency"
    ELSE "Problem Solving"

\* EXAM "Enforce correct Data Sufficiency options": whether the structured path
\* replaces the options by the five standard ones
enforces_ds_options(d, qt, mtype) ==
    /\ d = "EXAM"
    /\ \/ structured_question_type(d, qt, mtype) = "Data Sufficiency"
       \/ mtype = "DS"

\* question_type set by manually_extract_components
extracted_question_type(d, mtype) ==
    IF d = "CROG" THEN "Critical Reasoning"
    ELSE IF d = "RCM" THEN "Reading Comprehension"
    ELSE IF is_ds(mtype) THEN "Data Sufficiency"
    ELSE "Problem Solving"

\* the question_type of the value generate_response returns ("": an error
\* dictionary has none)
question_type_of(d, r, qt, mtype) ==
    IF r.kind = "structured" THEN structured_question_type(d, qt, mtype)
    ELSE IF r.kind = "heuristic" THEN extracted_question_type(d, mtype)
    ELSE ""

NotParsed == [done |-> FALSE, mtype |-> "", json |-> NoJson, result |-> ErrorResult,
              response_type |-> "absent", question_type |-> "", ds_options |-> FALSE,
              extracted_type |-> ""]

\* ---- selection of the work list -------------------------------------------
\* variant: limit is looked at before start
SelectSequential_LimitFirst(files, start, end, limit, test) ==
    IF limit # NoneV THEN Slice(files, 0, limit)
    ELSE IF start # NoneV /\ end # NoneV THEN Slice(files, start, end + 1)
    ELSE IF start # NoneV THEN Slice(files, start, Len(files))
    ELSE IF test THEN Slice(files, 0, TEST_MODE_LIMIT)
    ELSE files

\* CROG / RC: process_all_files_sequentially, "Filter files based on parameters"
SelectSequential(files, start, end, limit, test) ==
    IF start # NoneV /\ end # NoneV THEN Slice(files, start, end + 1)
    ELSE IF start # NoneV THEN Slice(files, start, Len(files))
    ELSE IF limit # NoneV THEN Slice(files, 0, limit)
    ELSE IF test THEN Slice(files, 0, TEST_MODE_LIMIT)
    ELSE files

\* EXAM: process_all_files, "Apply custom range if specified"
SelectExam(remaining, start, end, limit) ==
    IF start # NoneV \/ end # NoneV \/ limit # NoneV
    THEN LET s == IF start = NoneV THEN 0 ELSE start
             e0 == IF end # NoneV THEN end ELSE Len(remaining)
             e == IF limit # NoneV THEN Min(s + limit, Len(remaining)) ELSE e0
         IN Slice(remaining, s, e)
    ELSE remaining

StartArgs == {NoneV}
\* ---- combineResults: result files ------------------------------------------
\* required_keys of is_valid_result
required_keys == {"question", "options", "correct_answer", "explanation"}
\* the names is_valid_result looks for
AnalysisNames == required_keys \cup {"error"}

\* a result file as load_json_file returns it:
\*   kind      "none" (None: missing or undecodable file), "empty" ({}), "dict"
\*   has       'analysis' in result
\*   type      of result['analysis']: "dict", "str", "list", or "null" (None or a
\*             number: a value without membership test)
\*   names     the names n with "n in analysis": keys of a dict, substrings of
\*             a str, elements of a list
\*   nonempty  dict: the keys whose value is not empty
NoAnalysis == [type |-> "null", names |-> {}, nonempty |-> {}]
ResultFiles ==
    {[kind |-> k, has |-> FALSE, analysis |-> NoAnalysis] : k \in {"none", "empty", "dict"}}
    \cup {[kind |-> "dict", has |-> TRUE, analysis |-> NoAnalysis]}
    \cup {[kind |-> "dict", has |-> TRUE,
           analysis |-> [type |-> t, names |-> ns, nonempty |-> {}]] :
             t \in {"str", "list"}, ns \in SUBSET AnalysisNames}
    \cup UNION {{[kind |-> "dict", has |-> TRUE,
                  analysis |-> [type |-> "dict", names |-> ns, nonempty |-> ne]] :
                    ne \in SUBSET ns} : ns \in SUBSET AnalysisNames}

\* variant: the test for an error analysis is left out
is_valid_result_NoErrorTest(r) ==
    IF r.kind # "dict" \/ ~r.has THEN "false"
    ELSE IF r.analysis.type = "null" THEN "raise"
    ELSE IF required_keys \subseteq r.analysis.names THEN "true" ELSE "false"

\* is_valid_result: "true", "false", or "raise" (TypeError of "key in analysis")
is_valid_result(r) ==
    IF r.kind # "dict" \/ ~r.has THEN "false"
    ELSE IF r.analysis.type = "dict" /\ "error" \in r.analysis.names THEN "false"
    ELSE IF r.analysis.type = "null" THEN "raise"
    ELSE IF required_keys \subseteq r.analysis.names THEN "true" ELSE "false"

NotChecked == [result |-> [kind |-> "none", has |-> FALSE, analysis |-> NoAnalysis],
               valid |-> "unset"]

\* invocations of a driver running side by side
Procs == {1, 2}
NoInvocations == [p \in Procs |-> [pc |-> "none", html_files |-> <<>>, i |-> 0,
                                   processed_files |-> <<>>, saved |-> {}]]
\* process_results at the head of its loop: the files of FINAL_DIR, the list
\* combined_results, all_questions.json, the number of files loaded so far
NoFinal == [pc |-> "loop", n |-> 0, files |-> {}, combined_results |-> <<>>,
            all_questions |-> <<>>]

\* the fields fix_result looks for in partial_json and raw_response
FixTargets == {"question", "options", "correct_answer", "explanation"}

\* variant: the fixed analysis holds only the fields that were found
fix_result_FoundOnly(r, found) ==
    IF r.kind # "dict" THEN NotChecked.result
    ELSE IF r.has /\ r.analysis.type = "dict" /\ "error" \in r.analysis.names
    THEN IF {"question", "correct_answer", "explanation"} \subseteq found
         THEN [kind |-> "dict", has |-> TRUE,
               analysis |-> [type |-> "dict", names |-> found, nonempty |-> found]]
         ELSE NotChecked.result
    ELSE NotChecked.result

\* fix_result; found: the fields for which partial_json or raw_response yields a
\* non-empty value.  The value None is the result of kind "none".
fix_result(r, found) ==
    IF r.kind # "dict" THEN NotChecked.result
    ELSE IF r.has /\ r.analysis.type = "dict" /\ "error" \in r.analysis.names
    THEN IF {"question", "correct_answer", "explanation"} \subseteq found
         THEN [kind |-> "dict", has |-> TRUE,
               analysis |-> [type |-> "dict", names |-> required_keys, nonempty |-> found]]
         ELSE NotChecked.result
    ELSE NotChecked.result

\* --start, --end, --limit, --test not given
NoArgs == [start |-> NoneV, end |-> NoneV, limit |-> NoneV, test |-> FALSE]
LimitArgs == {NoneV} \cup (1..NumFiles)

\* ---- the item in flight ---------------------------------------------------
CurFile == html_files[i]
Cur == IF IsRC(driver) /\ q > 0 THEN <<CurFile, q>> ELSE <<CurFile, 0>>
\* the items that have an output file of their own
LeafItems == IF IsRC(driver) THEN Files \X Questions ELSE Files \X {0}
PosOf(f) == IF Contains(html_files, f) THEN CHOOSE k \in DOMAIN html_files : html_files[k] = f
            ELSE 0
\* the main loop has finished the step of x's file
Done(x) == /\ PosOf(x[1]) > 0
           /\ \/ PosOf(x[1]) < i
              \/ (PosOf(x[1]) = i /\ pc \in {"agg", "aggwrite"})
Running == pc \notin {"stopped", "done", "crashed"}

\* what the driver keeps of a result
Summary(d, r) == [kind |-> r.kind, error |-> r.error,
                  complete |-> RequiredKeys(d) \subseteq r.keys,
                  question_type |-> ""]
ApiError == [kind |-> "error", error |-> TRUE, complete |-> FALSE, question_type |-> ""]
DirectResult == [kind |-> "direct", error |-> FALSE, complete |-> TRUE,
                 question_type |-> "Reading Comprehension"]

Line(x, kind) == [item |-> x, kind |-> kind, stamped |-> TRUE]

NoFault == faults' = faults /\ svcFails' = svcFails
Fault == faults < MaxIOFaults /\ faults' = faults + 1 /\ svcFails' = svcFails

VolatileInit ==
    /\ html_files = <<>>
    /\ i = 0
    /\ q = 0
    /\ processed_files = <<>>
    /\ processed_questions = <<>>
    /\ retry_count = 0
    /\ result = NoResult
    /\ status = [x \in Items |-> "pending"]
    /\ batch_results = <<>>
    /\ all_results = <<>>
    /\ combined_results = <<>>
    /\ loaded = {}
    /\ lastSaveOk = FALSE
    /\ written = {}
    /\ gotResult = {}
    /\ failed3 = {}

VolatileReset ==
    /\ html_files' = <<>>
    /\ i' = 0
    /\ q' = 0
    /\ processed_files' = <<>>
    /\ processed_questions' = <<>>
    /\ retry_count' = 0
    /\ result' = NoResult
    /\ status' = [x \in Items |-> "pending"]
    /\ batch_results' = <<>>
    /\ all_results' = <<>>
    /\ combined_results' = <<>>
    /\ loaded' = {}
    /\ lastSaveOk' = FALSE
    /\ written' = {}
    /\ gotResult' = {}
    /\ failed3' = {}

diskVars == <<out, ckptFile, errLog, aggFile>>
examVars == <<batch_results, all_results, combined_results>>
listVars == <<processed_files, processed_questions>>
histVars == <<loaded, orphan, lastSaveOk, written, gotResult, failed3>>

Init ==
    /\ driver \in Drivers
    /\ run = 0
    /\ pc = "stopped"
    /\ VolatileInit
    /\ out = [x \in Items |-> AbsentOut]
    /\ ckptFile = EmptyCkpt
    /\ errLog = <<>>
    /\ aggFile = EmptyAgg
    /\ faults = 0
    /\ svcFails = 0
    /\ orphan = {}
    /\ leadProse = <<>>
    /\ body = <<>>
    /\ trailProse = <<>>
    /\ parsed = NotParsed
    /\ invocations = NoInvocations
    /\ final = NoFinal
    /\ args = NoArgs
    /\ checked = NotChecked

\* items whose output file is complete while the checkpoint does not list them
PersistedNotCheckpointed == {x \in LeafItems : out[x].st = "complete" /\ ~InCkpt(x)}

\* ---- start of a run -------------------------------------------------------
\* process_all_files_sequentially / process_all_files up to the for loop
StartRun ==
    /\ pc \in {"stopped", "done", "crashed"}
    /\ run < MaxRuns
    /\ run' = run + 1
    /\ orphan' = PersistedNotCheckpointed
    /\ \E start \in StartArgs, end \in StartArgs, limit \in LimitArgs, test \in BOOLEAN :
         LET ck == load_checkpoint(ckptFile)
             remaining == Sorted({f \in Files : ~Contains(ck.files, f)})
         IN IF driver = "EXAM" /\ remaining = <<>>
            THEN \* "All files have already been processed!"
                 /\ pc' = "done"
                 /\ VolatileReset
            ELSE /\ pc' = "loop"
                 /\ html_files' = IF driver = "EXAM"
                                  THEN SelectExam(remaining, start, end, limit)
                                  ELSE SelectSequential(Sorted(Files), start, end, limit, test)
                 /\ i' = 1
                 /\ q' = 0
                 /\ processed_files' = ck.files
                 /\ processed_questions' = ck.questions
                 /\ loaded' = {<<f, 0>> : f \in Range(ck.files)} \cup Range(ck.questions)
                 /\ retry_count' = 0
                 /\ result' = NoResult
                 /\ status' = [x \in Items |-> "pending"]
                 /\ batch_results' = <<>>
                 /\ all_results' = <<>>
                 /\ combined_results' = <<>>
                 /\ lastSaveOk' = FALSE
                              /\ written' = {}
                 /\ gotResult' = {}
                 /\ failed3' = {}
    /\ UNCHANGED <<driver, diskVars, faults, svcFails, textVars, auxVars>>

\* the for loop is exhausted: the run prints its summary and exits
Finish ==
    /\ pc = "loop"
    /\ i > Len(html_files)
    /\ pc' = "done"
    /\ UNCHANGED <<driver, run, html_files, i, q, listVars, retry_count, result, status,
                   examVars, diskVars, faults, svcFails, loaded, orphan, lastSaveOk,
                   written, gotResult, failed3, textVars, auxVars>>

\* the process is terminated from outside; only the files survive
Kill ==
    /\ Running
    /\ pc' = "stopped"
    /\ VolatileReset
    /\ UNCHANGED <<driver, run, diskVars, faults, svcFails, orphan, textVars, auxVars>>

\* ---- moving on ------------------------------------------------------------
fixedVars == <<driver, run, html_files, loaded, orphan, textVars, auxVars>>
fixedOut == <<fixedVars, written>>
ServiceFailure == svcFails < MaxServiceFailures /\ svcFails' = svcFails + 1

\* CROG / RC: next iteration of "for i, html_file in enumerate(html_files)"
AdvanceFile ==
    /\ i' = i + 1
    /\ q' = 0
    /\ pc' = "loop"
    /\ retry_count' = 0
    /\ result' = NoResult

\* EXAM: next file of the batch, or the end-of-batch bookkeeping
AdvanceExam ==
    /\ IF i % BatchSize = 0 \/ i = Len(html_files)
       THEN pc' = "agg" /\ i' = i
       ELSE pc' = "loop" /\ i' = i + 1
    /\ q' = 0
    /\ retry_count' = 0
    /\ result' = NoResult

AdvanceItem == IF driver = "EXAM" THEN AdvanceExam ELSE AdvanceFile

\* RC: next iteration of "for question_data in rc_data['questions']"
AdvanceQuestion ==
    /\ i' = i
    /\ q' = q + 1
    /\ pc' = "qloop"
    /\ retry_count' = 0
    /\ result' = NoResult

\* variant: the exception is swallowed and the item goes on to the checkpoint
Raise_Swallowed == pc' = "ckpt"

\* an exception raised in the try block of the item in flight
Raise == pc' = IF IsRC(driver) /\ q > 0 THEN "qhandler" ELSE "handler"

\* ---- beginning an item ----------------------------------------------------
\* variant: no "if file_name in processed_files" check
CROG_BeginItem_NoSkip ==
    /\ driver = "CROG"
    /\ pc = "loop"
    /\ i <= Len(html_files)
    /\ status' = [status EXCEPT ![Cur] = "inprogress"]
    /\ NoFault
    /\ pc' = "call"
    /\ UNCHANGED <<fixedOut, i, q, retry_count, result, listVars, examVars, diskVars,
                   lastSaveOk, gotResult, failed3>>

\* process_file_sequentially: skip check, load_html_file
CROG_BeginItem ==
    /\ driver = "CROG"
    /\ pc = "loop"
    /\ i <= Len(html_files)
    /\ IF Contains(processed_files, CurFile)
       THEN /\ status' = [status EXCEPT ![Cur] = "skipped"]
            /\ AdvanceFile
            /\ NoFault
       ELSE /\ status' = [status EXCEPT ![Cur] = "inprogress"]
            /\ UNCHANGED <<i, q, retry_count, result>>
            /\ \/ NoFault /\ pc' = "call"
               \/ Fault /\ pc' = "handler"
    /\ UNCHANGED <<fixedOut, listVars, examVars, diskVars, lastSaveOk, gotResult,
                   failed3>>

\* process_all_files: top of the try block, load_html_file
EXAM_BeginItem ==
    /\ driver = "EXAM"
    /\ pc = "loop"
    /\ i <= Len(html_files)
    /\ status' = [status EXCEPT ![Cur] = "inprogress"]
    /\ \/ NoFault /\ pc' = "call"
       \/ Fault /\ pc' = "handler"
    /\ UNCHANGED <<fixedOut, i, q, retry_count, result, listVars, examVars, diskVars,
                   lastSaveOk, gotResult, failed3>>

\* RC process_file_sequentially: skip check, load_html_file
RC_BeginFile ==
    /\ IsRC(driver)
    /\ pc = "loop"
    /\ i <= Len(html_files)
    /\ IF Contains(processed_files, CurFile)
       THEN /\ status' = [status EXCEPT ![<<CurFile, 0>>] = "skipped"]
            /\ AdvanceFile
            /\ NoFault
       ELSE /\ status' = [status EXCEPT ![<<CurFile, 0>>] = "inprogress"]
            /\ UNCHANGED <<i, retry_count, result>>
            /\ \/ NoFault /\ pc' = "qloop" /\ q' = 1
               \/ Fault /\ pc' = "handler" /\ q' = 0
    /\ UNCHANGED <<fixedOut, listVars, examVars, diskVars, lastSaveOk, gotResult,
                   failed3>>

\* RC process_rc_questions_sequentially: one iteration up to the extraction
RC_BeginQuestion ==
    /\ IsRC(driver)
    /\ pc = "qloop"
    /\ IF q > QuestionsPerFile
       THEN \* all questions visited: the file returns "processed"
            /\ pc' = "ckpt"
            /\ q' = 0
            /\ UNCHANGED <<status, result, gotResult, retry_count>>
       ELSE IF Contains(processed_questions, Cur)
       THEN /\ status' = [status EXCEPT ![Cur] = "skipped"]
            /\ q' = q + 1
            /\ UNCHANGED <<pc, result, gotResult, retry_count>>
       ELSE /\ status' = [status EXCEPT ![Cur] = "inprogress"]
            /\ UNCHANGED <<q, retry_count>>
            /\ IF driver = "RCM"
               THEN pc' = "call" /\ UNCHANGED <<result, gotResult>>
               ELSE \* process_RC_direct builds the result from the scraped data
                    /\ pc' = "persist"
                    /\ result' = DirectResult
                    /\ gotResult' = gotResult \cup {Cur}
    /\ UNCHANGED <<fixedOut, i, listVars, examVars, diskVars, faults, svcFails,
                   lastSaveOk, failed3>>

\* ---- the service call -----------------------------------------------------
\* variant: the retry is not limited
CanRetry_Unbounded == TRUE

\* "if retry_count < MAX_RETRIES", the test of both failure branches
CanRetry == retry_count < MAX_RETRIES

\* CROG / RCM generate_response: the attempt fails, either because requests.post
\* raises RequestException or because handling the response text raises
\* ("except Exception"); both branches retry with retry_count + 1 while
\* retry_count < MAX_RETRIES and return an error value otherwise
ServiceFails ==
    /\ driver \in {"CROG", "RCM"}
    /\ pc = "call"
    /\ IF CanRetry
       THEN /\ retry_count' = retry_count + 1
            /\ UNCHANGED <<pc, result>>
       ELSE /\ result' = ApiError
            /\ pc' = "logerr"
            /\ UNCHANGED retry_count
    /\ failed3' = IF retry_count >= 2 THEN failed3 \cup {Cur} ELSE failed3
    /\ ServiceFailure
    /\ UNCHANGED <<fixedOut, i, q, listVars, status, examVars, diskVars, faults,
                   lastSaveOk, gotResult>>

\* CROG / RCM generate_response: the call returns a response text
ServiceReturns ==
    /\ driver \in {"CROG", "RCM"}
    /\ pc = "call"
    /\ \E text \in SampleTexts :
         LET g == Responses[driver][text][""]
             r == Summary(driver, g)
         IN /\ \E qt \in ResponseTypes :
                 result' = [r EXCEPT !.question_type = question_type_of(driver, g, qt, "")]
            /\ pc' = IF r.error THEN "logerr" ELSE "persist"
            /\ gotResult' = IF r.error THEN gotResult ELSE gotResult \cup {Cur}
    /\ UNCHANGED <<fixedOut, i, q, listVars, retry_count, status, examVars, diskVars,
                   faults, svcFails, lastSaveOk, failed3>>

\* EXAM generate_response: RequestException; every attempt writes a log line
EXAM_ServiceFails ==
    /\ driver = "EXAM"
    /\ pc = "call"
    /\ failed3' = IF retry_count >= 2 THEN failed3 \cup {Cur} ELSE failed3
    /\ svcFails < MaxServiceFailures
    /\ \/ /\ faults' = faults
          /\ svcFails' = svcFails + 1
          /\ IF CanRetry
             THEN /\ errLog' = Append(errLog, Line(Cur, "retry"))
                  /\ retry_count' = retry_count + 1
                  /\ UNCHANGED <<pc, result>>
             ELSE /\ errLog' = Append(errLog, Line(Cur, "maxretries"))
                  /\ result' = ApiError
                  /\ pc' = "persist"
                  /\ UNCHANGED retry_count
       \/ /\ faults < MaxIOFaults
          /\ faults' = faults + 1
          /\ svcFails' = svcFails + 1
          /\ pc' = "handler"
          /\ UNCHANGED <<errLog, retry_count, result>>
    /\ UNCHANGED <<fixedOut, i, q, listVars, status, examVars, out, ckptFile, aggFile,
                   lastSaveOk, gotResult>>

\* EXAM generate_response: the call returns; whatever comes back is persisted
EXAM_ServiceReturns ==
    /\ driver = "EXAM"
    /\ pc = "call"
    /\ \E text \in SampleTexts, mtype \in MetaTypes :
         LET g == Responses[driver][text][mtype]
             r == Summary(driver, g)
         IN /\ \E qt \in ResponseTypes :
                 result' = [r EXCEPT !.question_type = question_type_of(driver, g, qt, mtype)]
            /\ gotResult' = IF r.error THEN gotResult ELSE gotResult \cup {Cur}
    /\ pc' = "persist"
    /\ UNCHANGED <<fixedOut, i, q, listVars, retry_count, status, examVars, diskVars,
                   faults, svcFails, lastSaveOk, failed3>>

\* CROG / RCM: 'if "error" in result' appends a line to the error log
LogErrorResult ==
    /\ driver \in {"CROG", "RCM"}
    /\ pc = "logerr"
    /\ \/ /\ NoFault
          /\ errLog' = Append(errLog, Line(Cur, "error"))
          /\ status' = [status EXCEPT ![Cur] = "errored"]
          /\ IF driver = "CROG" THEN AdvanceFile ELSE AdvanceQuestion
       \/ /\ Fault
          /\ Raise
          /\ UNCHANGED <<errLog, status, i, q, retry_count, result>>
    /\ UNCHANGED <<fixedOut, listVars, examVars, out, ckptFile, aggFile, lastSaveOk,
                   gotResult, failed3>>

\* ---- persisting the result ------------------------------------------------
\* save_result: open(file_path, 'w') truncates the output file
PersistOpen ==
    /\ pc = "persist"
    /\ \/ /\ NoFault
          /\ out' = [out EXCEPT ![Cur] = [st |-> "partial", err |-> result.error]]
          /\ written' = written \cup {Cur}
          /\ pc' = "persisting"
       \/ /\ Fault
          /\ Raise
          /\ UNCHANGED <<out, written>>
    /\ UNCHANGED <<fixedVars, i, q, listVars, retry_count, result, status, examVars,
                   ckptFile, errLog, aggFile, lastSaveOk, gotResult, failed3>>

\* variant: the driver moves on while the output file is still being written
PersistWrite_Unflushed ==
    /\ pc = "persisting"
    /\ NoFault
    /\ IF driver = "CROG"
       THEN /\ status' = [status EXCEPT ![Cur] = "processed"]
            /\ pc' = "ckpt"
            /\ UNCHANGED <<i, q, retry_count, result, batch_results>>
       ELSE IF driver = "EXAM"
       THEN /\ batch_results' = Append(batch_results, CurFile)
            /\ pc' = "ckpt"
            /\ UNCHANGED <<i, q, retry_count, result, status>>
       ELSE /\ status' = [status EXCEPT ![Cur] = "processed"]
            /\ AdvanceQuestion
            /\ UNCHANGED batch_results
    /\ UNCHANGED <<fixedOut, listVars, all_results, combined_results, out, ckptFile, errLog,
                   aggFile, lastSaveOk, gotResult, failed3>>

\* save_result: json.dump completes and the file is closed; the code that
\* follows up to the next file-system effect
PersistWrite ==
    /\ pc = "persisting"
    /\ \/ /\ NoFault
          /\ out' = [out EXCEPT ![Cur].st = "complete"]
          /\ IF driver = "CROG"
             THEN \* return {"status": "processed", ...}
                  /\ status' = [status EXCEPT ![Cur] = "processed"]
                  /\ pc' = "ckpt"
                  /\ UNCHANGED <<i, q, retry_count, result, batch_results>>
             ELSE IF driver = "EXAM"
             THEN /\ batch_results' = Append(batch_results, CurFile)
                  /\ pc' = "ckpt"
                  /\ UNCHANGED <<i, q, retry_count, result, status>>
             ELSE \* results.append({"status": "processed", ...})
                  /\ status' = [status EXCEPT ![Cur] = "processed"]
                  /\ AdvanceQuestion
                  /\ UNCHANGED batch_results
       \/ /\ Fault
          /\ Raise
          /\ UNCHANGED <<out, i, q, retry_count, result, status, batch_results>>
    /\ UNCHANGED <<fixedOut, listVars, all_results, combined_results, ckptFile, errLog,
                   aggFile, lastSaveOk, gotResult, failed3>>

\* ---- the checkpoint -------------------------------------------------------
\* questions of the file in flight with the given status, in order
RECURSIVE QuestionsWith(_, _)
QuestionsWith(st, k) ==
    IF k > QuestionsPerFile THEN <<>>
    ELSE (IF status[<<CurFile, k>>] = st THEN <<<<CurFile, k>>>> ELSE <<>>)
         \o QuestionsWith(st, k + 1)

\* variant: the file is appended whatever became of its questions
AppendedFiles_Always == Append(processed_files, CurFile)

\* variant: the file is put at the head of the list
AppendedFiles_Prepended == <<CurFile>> \o processed_files

\* variant: the append is forgotten
AppendedFiles_Forgotten == processed_files

\* processed_files.append(file_name); RC: only if no question ended in error
AppendedFiles ==
    IF IsRC(driver) /\ QuestionsWith("errored", 1) # <<>>
    THEN processed_files
    ELSE Append(processed_files, CurFile)

\* RC: processed_questions.append(q_result["question_id"]) for processed questions
AppendedQuestions ==
    IF IsRC(driver) THEN processed_questions \o QuestionsWith("processed", 1)
    ELSE processed_questions

\* variant: the list is saved as it was before the append
save_checkpoint_BeforeAppend(files, questions) ==
    [st |-> "valid",
     files |-> IF files = <<>> THEN <<>> ELSE SubSeq(files, 1, Len(files) - 1),
     questions |-> questions]

\* json.dump({"processed_files": ..., "processed_questions": ...})
save_checkpoint(files, questions) == [st |-> "valid", files |-> files, questions |-> questions]

\* the in-memory lists are extended, then save_checkpoint opens the file for
\* writing, which truncates it
CheckpointOpen ==
    /\ pc = "ckpt"
    /\ processed_files' = AppendedFiles
    /\ processed_questions' = AppendedQuestions
    /\ status' = IF IsRC(driver) THEN [status EXCEPT ![<<CurFile, 0>>] = "processed"]
                 ELSE status
    /\ lastSaveOk' = FALSE
    /\ \/ /\ NoFault
          /\ ckptFile' = CorruptCkpt
          /\ pc' = "ckpting"
          /\ UNCHANGED <<i, q, retry_count, result>>
       \/ /\ Fault
          /\ UNCHANGED ckptFile
          /\ IF driver = "EXAM"
             THEN \* save_checkpoint has no try: the exception reaches the handler
                  /\ Raise
                  /\ UNCHANGED <<i, q, retry_count, result>>
             ELSE \* "Error saving checkpoint" is printed and the run goes on
                  AdvanceFile
    /\ UNCHANGED <<fixedOut, examVars, out, errLog, aggFile, gotResult, failed3>>

\* save_checkpoint: json.dump completes and the file is closed
CheckpointWrite ==
    /\ pc = "ckpting"
    /\ \/ /\ NoFault
          /\ ckptFile' = save_checkpoint(processed_files, processed_questions)
          /\ lastSaveOk' = TRUE
          /\ status' = IF driver = "EXAM" THEN [status EXCEPT ![Cur] = "processed"]
                       ELSE status
          /\ AdvanceItem
       \/ /\ Fault
          /\ UNCHANGED <<ckptFile, status>>
          /\ lastSaveOk' = FALSE
          /\ IF driver = "EXAM"
             THEN /\ Raise
                  /\ UNCHANGED <<i, q, retry_count, result>>
             ELSE AdvanceFile
    /\ UNCHANGED <<fixedOut, listVars, examVars, out, errLog, aggFile, gotResult, failed3>>

\* ---- exception handlers ---------------------------------------------------
\* RC process_rc_questions_sequentially: "except Exception" of one question
QuestionHandler ==
    /\ pc = "qhandler"
    /\ \/ /\ NoFault
          /\ errLog' = Append(errLog, Line(Cur, "exception"))
          /\ status' = [status EXCEPT ![Cur] = "errored"]
          /\ AdvanceQuestion
       \/ /\ Fault
          /\ pc' = "handler"
          /\ UNCHANGED <<errLog, status, i, q, retry_count, result>>
    /\ UNCHANGED <<fixedOut, listVars, examVars, out, ckptFile, aggFile, lastSaveOk,
                   gotResult, failed3>>

\* process_file_sequentially / process_all_files: "except Exception" of one file;
\* an exception raised by the handler's own log write is caught by nothing
FileHandler ==
    /\ pc = "handler"
    /\ \/ /\ NoFault
          /\ errLog' = Append(errLog, Line(<<CurFile, 0>>, "exception"))
          /\ status' = [status EXCEPT ![<<CurFile, 0>>] = "errored"]
          /\ AdvanceItem
       \/ /\ Fault
          /\ pc' = "crashed"
          /\ UNCHANGED <<errLog, status, i, q, retry_count, result>>
    /\ UNCHANGED <<fixedOut, listVars, examVars, out, ckptFile, aggFile, lastSaveOk,
                   gotResult, failed3>>

\* ---- EXAM: the aggregate file ---------------------------------------------
\* variant: the results of the batch are not added to the results of the run
extend_Dropped(all, batch) == all

\* all_results.extend(batch_results)
extend(all, batch) == all \o batch

\* end of a batch: all_results.extend(batch_results), read the previous aggregate
\* file, combine, open the aggregate file for writing
AggregateOpen ==
    /\ pc = "agg"
    /\ LET all == extend(all_results, batch_results)
           previously_processed == IF aggFile.st = "valid" THEN aggFile.entries ELSE <<>>
       IN /\ all_results' = all
          /\ batch_results' = <<>>
          /\ combined_results' = all \o FilterSeq(previously_processed, Files \ Range(all))
    /\ \/ NoFault /\ aggFile' = CorruptAgg /\ pc' = "aggwrite"
       \/ Fault /\ UNCHANGED aggFile /\ pc' = "crashed"
    /\ UNCHANGED <<fixedOut, i, q, listVars, retry_count, result, status, out, ckptFile,
                   errLog, lastSaveOk, gotResult, failed3>>

\* json.dump(combined_results, f) completes; next batch
AggregateWrite ==
    /\ pc = "aggwrite"
    /\ \/ /\ NoFault
          /\ aggFile' = [st |-> "valid", entries |-> combined_results,
                          held |-> aggFile.held \cup Range(combined_results)]
          /\ pc' = "loop"
          /\ i' = i + 1
       \/ /\ Fault
          /\ pc' = "crashed"
          /\ UNCHANGED <<aggFile, i>>
    /\ UNCHANGED <<fixedOut, q, listVars, retry_count, result, status, examVars, out,
                   ckptFile, errLog, lastSaveOk, gotResult, failed3>>

\* ---- specification of the drivers -----------------------------------------
Next ==
    \/ StartRun
    \/ CROG_BeginItem
    \/ EXAM_BeginItem
    \/ RC_BeginFile
    \/ RC_BeginQuestion
    \/ ServiceFails
    \/ ServiceReturns
    \/ EXAM_ServiceFails
    \/ EXAM_ServiceReturns
    \/ LogErrorResult
    \/ PersistOpen
    \/ PersistWrite
    \/ CheckpointOpen
    \/ CheckpointWrite
    \/ QuestionHandler
    \/ FileHandler
    \/ AggregateOpen
    \/ AggregateWrite
    \/ Finish
    \/ Kill

Spec == Init /\ [][Next]_vars

\* ---- specification of the response-text parsing --------------------------
\* the response text handed to the parsing code of generate_response
ResponseText == leadProse \o body \o trailProse

InitParse ==
    /\ driver \in {"CROG", "EXAM", "RCM"}
    /\ run = 0
    /\ pc = "stopped"
    /\ VolatileInit
    /\ out = [x \in Items |-> AbsentOut]
    /\ ckptFile = EmptyCkpt
    /\ errLog = <<>>
    /\ aggFile = EmptyAgg
    /\ faults = 0
    /\ svcFails = 0
    /\ orphan = {}
    /\ leadProse \in BoundedSeq(ProseAlphabet, MaxProse)
    /\ body \in Objects \cup PlainBodies
    /\ trailProse \in BoundedSeq(ProseAlphabet, MaxProse)
    /\ parsed = NotParsed
    /\ invocations = NoInvocations
    /\ final = NoFinal
    /\ args = NoArgs
    /\ checked = NotChecked

\* generate_response from "response_text = result.get('response', '')" on
Parse ==
    /\ ~parsed.done
    /\ \E mtype \in (IF driver = "EXAM" THEN MetaTypes ELSE {""}), qt \in ResponseTypes :
         LET res == generate_response(driver, ResponseText, mtype)
         IN parsed' = [done |-> TRUE,
                       mtype |-> mtype,
                       json |-> ExtractJson(ResponseText),
                       result |-> res,
                       response_type |-> qt,
                       question_type |-> question_type_of(driver, res, qt, mtype),
                       ds_options |-> /\ res.kind = "structured"
                                      /\ enforces_ds_options(driver, qt, mtype),
                       extracted_type |-> extracted_question_type(driver, mtype)]
    /\ UNCHANGED <<driverVars, leadProse, body, trailProse, auxVars>>

NextParse == Parse

SpecParse == InitParse /\ [][NextParse]_vars

\* ---- specification of the checkpoint load ---------------------------------
MaxCkptLen == 2

\* what CHECKPOINT_FILE can hold when a run starts:
\*   "absent"      no such file
\*   "unreadable"  open() or read() raises OSError (permissions, a directory, ...)
\*   "corrupt"     text that is not JSON (json.load raises JSONDecodeError)
\*   "notobject"   JSON that is not an object (a list, a number, null)
\*   "nokey"       a JSON object without "processed_files"
\*   "nullfield"   a JSON object whose "processed_files" is null
\*   "valid"       the record save_checkpoint writes
CkptStates == {"absent", "unreadable", "corrupt", "notobject", "nokey", "nullfield", "valid"}
CkptContents(d) ==
    {[st |-> s, files |-> <<>>, questions |-> <<>>] : s \in CkptStates \ {"valid"}}
    \cup {[st |-> "valid", files |-> fs, questions |-> qs] :
             fs \in BoundedSeq(Files, MaxCkptLen),
             qs \in IF IsRC(d) THEN BoundedSeq(Files \X Questions, 1) ELSE {<<>>}}

\* load_checkpoint (CROG, RC: "except Exception") / read_checkpoint (EXAM:
\* "except (FileNotFoundError, json.JSONDecodeError)"): "raise", the "default"
\* record, or the decoded "content" of the file
read_checkpoint(d, f) ==
    IF f.st = "absent" THEN "default"
    ELSE IF f.st = "unreadable" THEN (IF d = "EXAM" THEN "raise" ELSE "default")
    ELSE IF f.st = "corrupt" THEN "default"
    ELSE "content"

\* checkpoint.get("processed_files", []) and the print of len(processed_files)
\* that follows: a value without .get raises AttributeError, len(None) TypeError
checkpoint_get(d, f) ==
    LET r == read_checkpoint(d, f)
    IN IF r = "raise" THEN [raised |-> TRUE, files |-> <<>>, questions |-> <<>>]
       ELSE IF r = "default" THEN [raised |-> FALSE, files |-> <<>>, questions |-> <<>>]
       ELSE IF f.st \in {"notobject", "nullfield"}
       THEN [raised |-> TRUE, files |-> <<>>, questions |-> <<>>]
       ELSE IF f.st = "nokey" THEN [raised |-> FALSE, files |-> <<>>, questions |-> <<>>]
       ELSE [raised |-> FALSE, files |-> f.files, questions |-> f.questions]

InitLoad ==
    /\ driver \in Drivers
    /\ run = 0
    /\ pc = "stopped"
    /\ VolatileInit
    /\ out = [x \in Items |-> AbsentOut]
    /\ ckptFile \in CkptContents(driver)
    /\ errLog = <<>>
    /\ aggFile = EmptyAgg
    /\ faults = 0
    /\ svcFails = 0
    /\ orphan = {}
    /\ leadProse = <<>>
    /\ body = <<>>
    /\ trailProse = <<>>
    /\ parsed = NotParsed
    /\ invocations = NoInvocations
    /\ final = NoFinal
    /\ args = NoArgs
    /\ checked = NotChecked

\* process_all_files_sequentially / process_all_files: "Load checkpoint"
LoadCheckpoint ==
    /\ pc = "stopped"
    /\ run = 0
    /\ run' = 1
    /\ LET ck == checkpoint_get(driver, ckptFile)
       IN /\ pc' = IF ck.raised THEN "crashed" ELSE "loop"
          /\ processed_files' = ck.files
          /\ processed_questions' = ck.questions
          /\ loaded' = {<<f, 0>> : f \in Range(ck.files)} \cup Range(ck.questions)
    /\ UNCHANGED <<driver, html_files, i, q, retry_count, result, status, examVars, diskVars,
                   faults, svcFails, orphan, lastSaveOk, written, gotResult, failed3, textVars, auxVars>>

NextLoad == LoadCheckpoint

SpecLoad == InitLoad /\ [][NextLoad]_vars

\* ---- specification of the work selection ----------------------------------
\* values of --start, --end, --limit (type=int; None when the option is absent)
ArgValues == {NoneV} \cup (0..NumFiles)
\* the directory listing of the selection: more files than TEST_MODE_LIMIT
NumListed == 4
Listed == 1..NumListed

\* the work list a driver makes of the directory listing, the loaded checkpoint
\* and the arguments: EXAM removes the checkpointed files, sorts, then applies
\* the range; CROG / RC sort the listing and apply the range
Selection(d, ck, a) ==
    IF d = "EXAM"
    THEN SelectExam(Sorted({f \in Listed : ~Contains(ck.files, f)}), a.start, a.end, a.limit)
    ELSE SelectSequential(Sorted(Listed), a.start, a.end, a.limit, a.test)

InitSelect ==
    /\ driver \in Drivers
    /\ run = 0
    /\ pc = "stopped"
    /\ VolatileInit
    /\ out = [x \in Items |-> AbsentOut]
    /\ ckptFile \in {save_checkpoint(fs, <<>>) : fs \in BoundedSeq(Files, MaxCkptLen)}
    /\ errLog = <<>>
    /\ aggFile = EmptyAgg
    /\ faults = 0
    /\ svcFails = 0
    /\ orphan = {}
    /\ leadProse = <<>>
    /\ body = <<>>
    /\ trailProse = <<>>
    /\ parsed = NotParsed
    /\ invocations = NoInvocations
    /\ final = NoFinal
    /\ args \in [start : ArgValues, end : ArgValues, limit : ArgValues,
                 test : IF driver = "EXAM" THEN {FALSE} ELSE BOOLEAN]
    /\ checked = NotChecked

\* process_all_files_sequentially / process_all_files up to the for loop, with
\* the arguments of the command line
Select ==
    /\ pc = "stopped"
    /\ run = 0
    /\ run' = 1
    /\ LET ck == load_checkpoint(ckptFile)
       IN /\ html_files' = Selection(driver, ck, args)
          /\ processed_files' = ck.files
          /\ processed_questions' = ck.questions
          /\ loaded' = {<<f, 0>> : f \in Range(ck.files)} \cup Range(ck.questions)
          /\ pc' = IF driver = "EXAM" /\ Listed \subseteq Range(ck.files) THEN "done" ELSE "loop"
          /\ i' = 1
    /\ UNCHANGED <<driver, q, retry_count, result, status, examVars, diskVars, faults,
                   svcFails, orphan, lastSaveOk, written, gotResult, failed3, textVars, auxVars>>

NextSelect == Select

SpecSelect == InitSelect /\ [][NextSelect]_vars

\* ---- specification of the service call -----------------------------------
\* the scripts that send a request to the Ollama service ("OLLAMA" is
\* processWithOllama_specific.py)
Callers == {"CROG", "EXAM", "RCM", "OLLAMA"}

\* the timeout argument of requests.post, in seconds; None: requests waits for
\* the response without limit
RequestTimeout(d) ==
    CASE d = "CROG" -> 60
      [] d = "EXAM" -> 90
      [] d = "RCM" -> 60
      [] d = "OLLAMA" -> NoneV

InitCall ==
    /\ driver \in Callers
    /\ run = 0
    /\ pc = "call"
    /\ html_files = Sorted(Files)
    /\ i = 1
    /\ q = 0
    /\ processed_files = <<>>
    /\ processed_questions = <<>>
    /\ retry_count = 0
    /\ result = NoResult
    /\ status = [x \in Items |-> "pending"]
    /\ batch_results = <<>>
    /\ all_results = <<>>
    /\ combined_results = <<>>
    /\ loaded = {}
    /\ lastSaveOk = FALSE
    /\ written = {}
    /\ gotResult = {}
    /\ failed3 = {}
    /\ out = [x \in Items |-> AbsentOut]
    /\ ckptFile = EmptyCkpt
    /\ errLog = <<>>
    /\ aggFile = EmptyAgg
    /\ faults = 0
    /\ svcFails = 0
    /\ orphan = {}
    /\ leadProse = <<>>
    /\ body = <<>>
    /\ trailProse = <<>>
    /\ parsed = NotParsed
    /\ invocations = NoInvocations
    /\ final = NoFinal
    /\ args = NoArgs
    /\ checked = NotChecked

callFixed == <<driver, run, html_files, q, processed_files, processed_questions, status,
               examVars, diskVars, faults, loaded, orphan, lastSaveOk, written, gotResult,
               failed3, textVars, auxVars>>

\* generate_response has returned a value: the caller goes on to the next file
NextCall(r) ==
    /\ result' = r
    /\ retry_count' = 0
    /\ i' = i + 1
    /\ pc' = IF i < Len(html_files) THEN "call" ELSE "done"

\* requests.post is entered: the request is sent
SendRequest ==
    /\ pc = "call"
    /\ pc' = "waiting"
    /\ UNCHANGED <<callFixed, i, retry_count, result, svcFails>>

\* the service answers
ResponseArrives ==
    /\ pc = "waiting"
    /\ NextCall(DirectResult)
    /\ UNCHANGED <<callFixed, svcFails>>

\* "except requests.exceptions.RequestException": the three drivers retry while
\* retry_count < MAX_RETRIES; processWithOllama_specific returns the error
RequestException ==
    /\ svcFails' = svcFails + 1
    /\ IF driver # "OLLAMA" /\ CanRetry
       THEN /\ retry_count' = retry_count + 1
            /\ pc' = "call"
            /\ UNCHANGED <<i, result>>
       ELSE NextCall(ApiError)

\* the connection is refused or reset, or raise_for_status() raises
RequestFails ==
    /\ pc = "waiting"
    /\ RequestException
    /\ UNCHANGED callFixed

\* the service stays silent and the timeout of the call expires: requests
\* raises Timeout, a RequestException
TimeoutExpires ==
    /\ pc = "waiting"
    /\ RequestTimeout(driver) # NoneV
    /\ RequestException
    /\ UNCHANGED callFixed

\* the service stays silent and the call has no timeout: requests.post does not
\* return
WaitsForever ==
    /\ pc = "waiting"
    /\ RequestTimeout(driver) = NoneV
    /\ pc' = "blocked"
    /\ UNCHANGED <<callFixed, i, retry_count, result, svcFails>>

NextCallStep ==
    \/ SendRequest
    \/ ResponseArrives
    \/ RequestFails
    \/ TimeoutExpires
    \/ WaitsForever

SpecCall == InitCall /\ [][NextCallStep]_vars

\* ---- specification of combineResults.is_valid_result -----------------------
InitValid ==
    /\ driver = "CROG"
    /\ run = 0
    /\ pc = "stopped"
    /\ VolatileInit
    /\ out = [x \in Items |-> AbsentOut]
    /\ ckptFile = EmptyCkpt
    /\ errLog = <<>>
    /\ aggFile = EmptyAgg
    /\ faults = 0
    /\ svcFails = 0
    /\ orphan = {}
    /\ leadProse = <<>>
    /\ body = <<>>
    /\ trailProse = <<>>
    /\ parsed = NotParsed
    /\ invocations = NoInvocations
    /\ final = NoFinal
    /\ args = NoArgs
    /\ checked \in {[result |-> r, valid |-> "unset"] : r \in ResultFiles}

\* process_results: "if is_valid_result(result)"
Validate ==
    /\ checked.valid = "unset"
    /\ checked' = [checked EXCEPT !.valid = is_valid_result(checked.result)]
    /\ UNCHANGED <<driverVars, textVars, args, invocations, final>>

NextValid == Validate

SpecValid == InitValid /\ [][NextValid]_vars

\* ---- specification of combineResults.process_results -----------------------
MaxResultFiles == 2

InitCombine ==
    /\ driver = "EXAM"
    /\ run = 0
    /\ pc = "stopped"
    /\ VolatileInit
    /\ out = [x \in Items |-> AbsentOut]
    /\ ckptFile = EmptyCkpt
    /\ errLog = <<>>
    /\ aggFile = EmptyAgg
    /\ faults = 0
    /\ svcFails = 0
    /\ orphan = {}
    /\ leadProse = <<>>
    /\ body = <<>>
    /\ trailProse = <<>>
    /\ parsed = NotParsed
    /\ invocations = NoInvocations
    /\ final = NoFinal
    /\ args = NoArgs
    /\ checked = NotChecked

\* one turn of the loop of process_results: a file is loaded and, when valid or
\* fixed, written to FINAL_DIR and appended to combined_results; a TypeError of
\* is_valid_result ends process_results
ProcessResult ==
    /\ final.pc = "loop"
    /\ final.n < MaxResultFiles
    /\ \E r \in ResultFiles, found \in SUBSET FixTargets :
         LET valid == is_valid_result(r)
             fixed_result == fix_result(r, found)
             keep(e) == [final EXCEPT !.n = final.n + 1,
                                      !.files = final.files \cup {e},
                                      !.combined_results = Append(final.combined_results, e)]
         IN /\ checked' = [result |-> r, valid |-> valid]
            /\ final' = IF valid = "raise" THEN [final EXCEPT !.pc = "raised"]
                        ELSE IF valid = "true" THEN keep(r)
                        ELSE IF fixed_result.kind # "none" THEN keep(fixed_result)
                        ELSE [final EXCEPT !.n = final.n + 1]
    /\ UNCHANGED <<driverVars, textVars, args, invocations>>

\* process_results after its loop: "Save all results"
SaveAllResults ==
    /\ final.pc = "loop"
    /\ final' = [final EXCEPT !.pc = "done", !.all_questions = final.combined_results]
    /\ UNCHANGED <<driverVars, textVars, args, invocations, checked>>

NextCombine == ProcessResult \/ SaveAllResults

SpecCombine == InitCombine /\ [][NextCombine]_vars

\* ---- specification of overlapping invocations ------------------------------
\* two invocations of the CROG driver on the same checkpoint file, each started
\* with --start and --end
Ranges == {r \in (0..(NumListed - 1)) \X (0..(NumListed - 1)) : r[1] <= r[2]}

InitOverlap ==
    /\ driver = "CROG"
    /\ run = 0
    /\ pc = "stopped"
    /\ VolatileInit
    /\ out = [x \in Items |-> AbsentOut]
    /\ ckptFile = EmptyCkpt
    /\ errLog = <<>>
    /\ aggFile = EmptyAgg
    /\ faults = 0
    /\ svcFails = 0
    /\ orphan = {}
    /\ leadProse = <<>>
    /\ body = <<>>
    /\ trailProse = <<>>
    /\ parsed = NotParsed
    /\ args = NoArgs
    /\ checked = NotChecked
    /\ \E r \in [Procs -> Ranges] :
          invocations = [p \in Procs |->
                            [pc |-> "start",
                             html_files |-> SelectSequential(Sorted(Listed), r[p][1], r[p][2],
                                                             NoneV, FALSE),
                             i |-> 1, processed_files |-> <<>>, saved |-> {}]]
    /\ final = NoFinal

overlapFixed == <<driver, run, pc, html_files, i, q, processed_files, processed_questions,
                  retry_count, result, status, batch_results, all_results,
                  combined_results, out, errLog, aggFile, faults, svcFails, loaded, orphan,
                  lastSaveOk, written, gotResult, failed3, textVars, args, checked, final>>

\* process_all_files_sequentially up to the for loop: the checkpoint is read once
Invocation_Load(p) ==
    /\ invocations[p].pc = "start"
    /\ invocations' = [invocations EXCEPT
                          ![p].pc = "loop",
                          ![p].processed_files = load_checkpoint(ckptFile).files]
    /\ UNCHANGED <<ckptFile, overlapFixed>>

\* one turn of the for loop up to save_checkpoint: the file is skipped, or ends
\* in error, or is processed, appended to the list in memory, and the checkpoint
\* file is opened for writing
Invocation_Process(p) ==
    LET me == invocations[p]
        file_name == me.html_files[me.i]
    IN /\ me.pc = "loop"
       /\ me.i <= Len(me.html_files)
       /\ \/ /\ Contains(me.processed_files, file_name)
             /\ invocations' = [invocations EXCEPT ![p].i = me.i + 1]
             /\ UNCHANGED ckptFile
          \/ /\ ~Contains(me.processed_files, file_name)
             /\ invocations' = [invocations EXCEPT ![p].i = me.i + 1]
             /\ UNCHANGED ckptFile
          \/ /\ ~Contains(me.processed_files, file_name)
             /\ invocations' = [invocations EXCEPT
                                   ![p].pc = "saving",
                                   ![p].processed_files = Append(me.processed_files, file_name)]
             /\ ckptFile' = CorruptCkpt
       /\ UNCHANGED overlapFixed

\* save_checkpoint: json.dump completes and the file is closed
Invocation_Write(p) ==
    LET me == invocations[p]
    IN /\ me.pc = "saving"
       /\ ckptFile' = save_checkpoint(me.processed_files, <<>>)
       /\ invocations' = [invocations EXCEPT
                             ![p].pc = "loop",
                             ![p].i = me.i + 1,
                             ![p].saved = me.saved \cup {me.html_files[me.i]}]
       /\ UNCHANGED overlapFixed

\* the for loop is exhausted
Invocation_Finish(p) ==
    /\ invocations[p].pc = "loop"
    /\ invocations[p].i > Len(invocations[p].html_files)
    /\ invocations' = [invocations EXCEPT ![p].pc = "done"]
    /\ UNCHANGED <<ckptFile, overlapFixed>>

NextOverlap ==
    \E p \in Procs :
        \/ Invocation_Load(p)
        \/ Invocation_Process(p)
        \/ Invocation_Write(p)
        \/ Invocation_Finish(p)

SpecOverlap == InitOverlap /\ [][NextOverlap]_vars

TypeOK ==
    /\ pc \in {"stopped", "done", "crashed", "loop", "qloop", "call", "logerr", "persist",
               "persisting", "ckpt", "ckpting", "handler", "qhandler", "agg", "aggwrite"}
    /\ i \in 0..(NumFiles + 1)
    /\ q \in 0..(QuestionsPerFile + 1)
    /\ retry_count \in 0..MAX_RETRIES
    /\ faults \in 0..MaxIOFaults
    /\ svcFails \in 0..MaxServiceFailures
    /\ run \in 0..MaxRuns

\* ==== properties ===========================================================
\* number of entries the in-memory checkpoint lists hold for x
Count(s, e) == Cardinality({k \in DOMAIN s : s[k] = e})
MemEntries(x) == IF x[2] = 0 THEN Count(processed_files, x[1])
                 ELSE Count(processed_questions, x)
\* the item being handled, if any
InFlight == IF pc \in {"call", "logerr", "persist", "persisting", "ckpt", "ckpting",
                       "handler", "qhandler", "crashed"}
            THEN {Cur} ELSE {}
\* x, or the file x belongs to, ended in error in this run
Errored(x) == status[x] = "errored" \/ status[<<x[1], 0>>] = "errored"
\* items for which this run obtained a result that is neither completely written
\* nor reported as an error
LostWork == {x \in gotResult : ~(x \in written /\ out[x].st = "complete") /\ ~Errored(x)}
\* every selected file was loaded from the checkpoint
AllSelectedLoaded == Running /\ \A k \in DOMAIN html_files : <<html_files[k], 0>> \in loaded

\* C1: resume invariant.  In every reachable state of every driver, whatever the
\* position of the process and also after a kill, every identifier recorded in
\* the persisted checkpoint has a completely written output file: a file
\* identifier of CROG / EXAM its output file, a question identifier of RC its
\* output file, and a file identifier of RC the output files of all its questions.
ResumeInvariant ==
    /\ \A x \in LeafItems : InCkpt(x) => out[x].st = "complete"
    /\ IsRC(driver) => \A f \in CkptFiles : \A k \in Questions : out[<<f, k>>].st = "complete"

\* a kill point at which the checkpoint lists one item while the output file of
\* another one is half written
ResumeInvariantWitness ==
    /\ pc = "stopped"
    /\ run >= 1
    /\ \E x, y \in LeafItems : InCkpt(x) /\ out[y].st = "partial"

\* C2: idempotence of skip.  An item whose identifier the run loaded from the
\* checkpoint is never handed to the service, its output file is never written
\* and no entry is added for it to the checkpoint lists; a run all of whose
\* selected items were loaded from the checkpoint leaves the output directory
\* and the checkpoint file as they are and calls the service for nothing (EXAM:
\* with every file in the checkpoint the run ends at once).
SkipIdempotent ==
    [][ /\ \A x \in loaded :
             /\ out'[x] = out[x]
             /\ x \notin written'
             /\ (pc' \in {"call", "persist", "persisting"}) => (Cur' # x)
             /\ (pc' \notin {"stopped", "done", "crashed"} /\ run' = run)
                   => MemEntries(x)' = MemEntries(x)
        /\ AllSelectedLoaded => (out' = out /\ ckptFile' = ckptFile /\ pc' # "call")
        /\ (driver = "EXAM" /\ run' = run + 1 /\ Files \subseteq CkptFiles)
              => (pc' = "done" /\ out' = out /\ ckptFile' = ckptFile)
      ]_vars

\* a second run that found every selected item in the checkpoint and skipped it
SkipIdempotentWitness ==
    /\ pc = "done"
    /\ run = 2
    /\ html_files # <<>>
    /\ \A k \in DOMAIN html_files : /\ <<html_files[k], 0>> \in loaded
                                    /\ status[<<html_files[k], 0>>] = "skipped"
    /\ written = {}

\* C3 as stated: for every item of the run that was processed successfully and
\* whose step has finished, the identifier is in the persisted checkpoint if and
\* only if the output file exists.
CheckpointIffOutput ==
    \A x \in LeafItems :
        (status[x] = "processed" /\ Done(x)) => (InCkpt(x) <=> out[x].st # "absent")

\* C3 amended: for every item of the run that was processed successfully and
\* whose step has finished, the output file exists and is completely written,
\* an identifier in the persisted checkpoint implies that file, and the
\* identifier is in the persisted checkpoint whenever the most recent
\* save_checkpoint call of the run completed and (RC) the passage file of the
\* question did not end in error.
CheckpointIffOutputUnlessSaveFailed ==
    \A x \in LeafItems :
        (status[x] = "processed" /\ Done(x))
            => /\ out[x].st = "complete"
               /\ InCkpt(x) => out[x].st = "complete"
               /\ (lastSaveOk /\ ~Errored(x)) => InCkpt(x)

\* two processed items, both in the checkpoint, in a run that met an I/O fault
CheckpointIffOutputWitness ==
    /\ faults > 0
    /\ lastSaveOk
    /\ \E x, y \in LeafItems :
          /\ x # y
          /\ \A z \in {x, y} : status[z] = "processed" /\ Done(z) /\ InCkpt(z)
                               /\ out[z].st = "complete"

\* C4: an item whose output file was complete but whose identifier was not in
\* the checkpoint when the run started is never skipped; once processed again
\* its output file has been rewritten by this run and its identifier is in the
\* checkpoint the run saves (the most recent save completed, and in RC the
\* passage file did not end in error); and when no I/O fault and no service failure
\* occurs (so that the item is left that way by a kill only), the item is
\* processed again as soon as the run has passed it.
OrphanReprocessed ==
    \A x \in orphan :
        /\ x \notin loaded
        /\ status[x] # "skipped"
        /\ (status[x] = "processed" /\ Done(x))
              => /\ x \in written
                 /\ out[x].st = "complete"
                 /\ (lastSaveOk /\ ~Errored(x)) => InCkpt(x)
        /\ (faults = 0 /\ svcFails = 0 /\ Done(x))
              => (status[x] = "processed" /\ (pc # "ckpting" => InCkpt(x)))

\* after a kill between persist and checkpoint the next run has processed the
\* item again and recorded it
OrphanReprocessedWitness ==
    /\ run = 2
    /\ faults = 0
    /\ svcFails = 0
    /\ \E x \in orphan : /\ Done(x)
                         /\ status[x] = "processed"
                         /\ x \in written
                         /\ InCkpt(x)

\* C5: at every point at which the process can be killed, the only item for
\* which a result was obtained without being completely written to its output
\* file (or reported as an error) is the item in flight: the results of all
\* earlier items are on disk before the next item begins.
AtMostInFlightLost == LostWork \subseteq InFlight

\* a result is half written while an earlier item of the run is complete
AtMostInFlightLostWitness ==
    /\ pc = "persisting"
    /\ Cur \in LostWork
    /\ \E y \in LeafItems : y # Cur /\ status[y] = "processed" /\ out[y].st = "complete"

\* C6 as stated: an item whose service call failed 3 times in this run gets no
\* output file from the run and, once its step is over, is Errored and has a
\* line in the error log.
RetriesExhaustedErrored ==
    \A x \in failed3 :
        /\ x \notin written
        /\ x \notin InFlight => /\ status[x] = "errored"
                                /\ \E k \in DOMAIN errLog : errLog[k].item = x /\ errLog[k].stamped

\* C7 as stated: no error raised while an item is handled ends the run.
RunNeverTerminatedByError == pc # "crashed"

\* the response is not a usable structured result: no delimiters, invalid JSON
\* between them, or required keys missing
Unusable ==
    \/ ~parsed.json.ok
    \/ ~(RequiredKeys(driver) \subseteq StructuredResult(parsed.json).keys)

\* C8 as stated: whenever the response text is not a usable structured result,
\* generate_response returns the heuristic result and no error result.
DegradesToHeuristic ==
    (parsed.done /\ Unusable) => (parsed.result.kind = "heuristic" /\ ~parsed.result.error)

\* C9 as stated: for any response text the result generate_response returns
\* holds every required key, and the field of every marker that does not occur
\* in the text is empty.
FallbackHasAllKeys ==
    parsed.done =>
        /\ RequiredKeys(driver) \subseteq parsed.result.keys
        /\ \A m \in Markers \ {"m_opts"} :
              (parsed.result.kind = "heuristic" /\ ~Contains(ResponseText, m))
                  => parsed.result.fields[KeyOf(m)] = <<>>

\* C10 as stated: for every response made of prose, one well-formed JSON
\* object and prose, the structured path yields exactly that object.
ExtractsEmbeddedObject ==
    (parsed.done /\ body \in Objects) => (parsed.json.ok /\ parsed.json.text = body)

\* C10 amended: the structured path yields exactly the embedded object
\* provided the leading prose holds no '{' and the trailing prose no '}'.
ExtractsEmbeddedObjectCleanProse ==
    (parsed.done /\ body \in Objects
       /\ ~Contains(leadProse, "{") /\ ~Contains(trailProse, "}"))
          => (parsed.json.ok /\ parsed.json.text = body)

\* a complete object between non-empty prose on both sides has been extracted
ExtractsEmbeddedObjectWitness ==
    /\ parsed.done
    /\ body = FullObject
    /\ leadProse # <<>> /\ ~Contains(leadProse, "{")
    /\ trailProse # <<>> /\ ~Contains(trailProse, "}")
    /\ parsed.json.ok
    /\ parsed.json.text = body
    /\ parsed.result.kind = "structured"

\* the items of the selected files that have an output file of their own
SelectedLeaves == {x \in LeafItems : Contains(html_files, x[1])}
\* the run has ended, it had loaded an empty checkpoint, and every selected item
\* succeeded: it was processed, its result is no error result, and the last
\* checkpoint save completed
FinishedCleanFromEmpty ==
    /\ pc = "done"
    /\ html_files # <<>>
    /\ loaded = {}
    /\ lastSaveOk
    /\ \A x \in SelectedLeaves : status[x] = "processed" /\ ~out[x].err
    /\ \A k \in DOMAIN html_files : status[<<html_files[k], 0>>] = "processed"

LoadNeverFatal ==
    run = 1 => /\ pc = "loop"
               /\ ckptFile.st # "valid" => (processed_files = <<>> /\ processed_questions = <<>>)

\* C13 as stated: a step in which a write to the checkpoint file or to the error
\* log fails does not stop the run and leaves the in-memory lists of processed
\* identifiers as the step made them.
LogOrCheckpointFaultSurvived ==
    [][ (pc \in {"call", "logerr", "ckpt", "ckpting", "handler", "qhandler"}
           /\ faults' = faults + 1)
          => /\ pc' # "crashed"
             /\ Len(processed_files') >= Len(processed_files)
             /\ Len(processed_questions') >= Len(processed_questions)
      ]_vars

\* C14 as stated: the work list of a run is sorted, and the items of it the run
\* attempts (those the loaded checkpoint does not list) are the items not in the
\* checkpoint of the list the same driver selects for the same directory and the
\* same arguments when the checkpoint is empty: the checkpoint decides which
\* selected items are skipped, not which items are selected.
SelectionIndependentOfCheckpoint ==
    run = 1 =>
        LET fixed == Selection(driver, load_checkpoint(EmptyCkpt), args)
        IN /\ \A k \in 1..(Len(html_files) - 1) : html_files[k] < html_files[k + 1]
           /\ Range(html_files) \ CkptFiles = Range(fixed) \ CkptFiles

Terminal == {"processed", "errored", "skipped"}

\* C15 as stated: within one run (no kill) the status of every item moves
\* Pending -> InProgress -> Processed or Errored, or Pending -> Skipped; a
\* terminal status is never left; Pending is left for Skipped exactly when the
\* identifier was in the checkpoint the run loaded; and when the run has ended
\* every selected file is in a terminal status.
ItemLifecycle ==
    [][ (run' = run /\ pc' # "stopped") =>
          /\ \A x \in Items :
                /\ status[x] = "pending"
                      => /\ status'[x] \in {"pending", "inprogress", "skipped"}
                         /\ status'[x] = "skipped" => x \in loaded
                         /\ status'[x] = "inprogress" => x \notin loaded
                /\ status[x] = "inprogress"
                      => status'[x] \in {"inprogress", "processed", "errored"}
                /\ status[x] \in Terminal => status'[x] = status[x]
          /\ pc' \in {"done", "crashed"}
                => \A k \in DOMAIN html_files' : status'[<<html_files'[k], 0>>] \in Terminal
      ]_vars

\* C16 as stated: every step leaves the lines the error log holds as they are
\* and appends at most one; a timestamped line for an item is appended exactly
\* in the step in which the item becomes Errored, so a run adds one line for
\* each item that ends Errored and none for any other item.
ErrorLogOneLinePerErrored ==
    [][ /\ Len(errLog') \in {Len(errLog), Len(errLog) + 1}
        /\ SubSeq(errLog', 1, Len(errLog)) = errLog
        /\ \A x \in Items :
              (status[x] # "errored" /\ status'[x] = "errored")
                 <=> /\ Len(errLog') = Len(errLog) + 1
                     /\ errLog'[Len(errLog')].item = x
                     /\ errLog'[Len(errLog')].stamped
      ]_vars

\* C17 as stated: no identifier in the persisted checkpoint belongs to an item
\* whose extraction failed: its output file holds no error result, and if the
\* run did not load the identifier it obtained a usable result for the item;
\* a run never attempts an item whose identifier it loaded, and it attempts
\* every other selected file it has passed, previously failed ones included.
ResumeWithoutLoss ==
    /\ \A x \in LeafItems : InCkpt(x) => ~out[x].err
    /\ html_files # <<>> =>
          /\ \A x \in LeafItems :
                /\ (InCkpt(x) /\ x \notin loaded) => x \in gotResult
                /\ x \in loaded => status[x] \in {"pending", "skipped"}
          /\ \A k \in DOMAIN html_files :
                LET x == <<html_files[k], 0>>
                IN Done(x) => IF x \in loaded THEN status[x] = "skipped"
                              ELSE status[x] \in {"processed", "errored"}

\* C18: the service is called for an item only at "call", which is entered
\* with retry_count = 0; a further call for the same item is made only after a
\* failed attempt and with retry_count raised by one; retry_count never exceeds
\* MAX_RETRIES there, and an attempt that fails with retry_count = MAX_RETRIES
\* ends the calls for the item with an error value.  Hence at most
\* MAX_RETRIES + 1 calls are made for one item.
BoundedRetries ==
    [][ /\ (pc # "call" /\ pc' = "call") => retry_count' = 0
        /\ pc = "call" =>
              /\ retry_count <= MAX_RETRIES
              /\ pc' = "call" => /\ Cur' = Cur
                                 /\ run' = run
                                 /\ svcFails' = svcFails + 1
                                 /\ retry_count' = retry_count + 1
                                 /\ retry_count' <= MAX_RETRIES
              /\ (svcFails' = svcFails + 1 /\ retry_count = MAX_RETRIES)
                    => (pc' # "call" /\ (pc' # "handler" => result'.error))
      ]_vars

\* the fourth attempt for an item has failed and an error value was returned
BoundedRetriesWitness ==
    /\ pc \in {"logerr", "persist"}
    /\ retry_count = MAX_RETRIES
    /\ Cur \in failed3
    /\ result = ApiError
    /\ svcFails >= MAX_RETRIES + 1

\* C19 as stated: every request a script sends carries a timeout, and no script
\* is ever left waiting for the service without end.
CallsBoundedByTimeout ==
    /\ pc = "waiting" => RequestTimeout(driver) # NoneV
    /\ pc # "blocked"

ValidOnlyIfNonEmpty ==
    checked.valid = "true" => required_keys \subseteq checked.result.analysis.nonempty

\* the questions of passage file f
QuestionsOf(f) == {<<f, k>> : k \in Questions}

\* C22: in the RC drivers, a passage file the run did not load from the
\* checkpoint is in processed_files, and in the checkpoint the run saves, only
\* if none of its questions ended Errored in the run; a file with an errored
\* question is in neither.  A run visits every selected file it did not load,
\* skips exactly those of its questions whose identifiers it loaded, and
\* attempts the others: when the file has been handled to its end every one of
\* its questions is Skipped (loaded) or Processed / Errored (not loaded).
RCFileOnlyIfNoErroredQuestion ==
    (IsRC(driver) /\ html_files # <<>>) =>
        \A f \in Files :
            /\ (<<f, 0>> \notin loaded /\ (Contains(processed_files, f) \/ f \in CkptFiles))
                  => \A x \in QuestionsOf(f) : status[x] # "errored"
            /\ (\E x \in QuestionsOf(f) : status[x] = "errored")
                  => (~Contains(processed_files, f) /\ f \notin CkptFiles)
            /\ <<f, 0>> \notin loaded => status[<<f, 0>>] # "skipped"
            /\ \A x \in QuestionsOf(f) :
                  /\ status[x] = "skipped" <=> (x \in loaded /\ status[x] # "pending")
                  /\ x \in loaded => status[x] \in {"pending", "skipped"}
                  /\ status[<<f, 0>>] = "processed"
                        => IF x \in loaded THEN status[x] = "skipped"
                           ELSE status[x] \in {"processed", "errored"}

\* a later run revisits a passage file that was left out of processed_files:
\* the question recorded before is skipped, another one is processed, and the
\* file is now in the checkpoint
RCFileRevisitedWitness ==
    /\ IsRC(driver)
    /\ run = 2
    /\ \E f \in Files : \E x, y \in QuestionsOf(f) :
          /\ <<f, 0>> \notin loaded
          /\ x \in loaded /\ status[x] = "skipped"
          /\ y \notin loaded /\ status[y] = "processed"
          /\ f \in CkptFiles

\* the entries a reader finds in the aggregate file
AggEntries == IF aggFile.st = "valid" THEN Range(aggFile.entries) ELSE {}

\* C23 as stated: when a batch has written the aggregate file, the file holds
\* every result of the run exactly once and every entry it held before; and an
\* entry the aggregate file has held is found in it whenever no write of the
\* file is under way, across batches and across runs.
AggregateNeverDropsEntries ==
    [][ /\ (pc = "aggwrite" /\ pc' = "loop")
              => /\ \A f \in Range(all_results) : Count(aggFile'.entries, f) = 1
                 /\ aggFile.held \subseteq Range(aggFile'.entries)
        /\ pc' # "aggwrite" => aggFile'.held \subseteq AggEntries'
      ]_vars

\* C24 as stated: in processExamPacksWithMistral, whenever the structured path
\* has replaced the options by the five standard Data Sufficiency options the
\* returned result's question_type is "Data Sufficiency", and for a response that
\* names no question_type the structured path gives the metadata type (the value
\* "DS" included) the same question_type as manually_extract_components does.
DSOptionsOnlyForDataSufficiency ==
    (driver = "EXAM" /\ parsed.done /\ parsed.result.kind = "structured")
        => /\ parsed.ds_options => parsed.question_type = "Data Sufficiency"
           /\ parsed.response_type = "absent"
                  => parsed.question_type = parsed.extracted_type

\* C25: in the CROG and RC-Mistral drivers an output file is opened for writing
\* only with a result that has no "error" key, holds every required key and has
\* the driver's own question_type, whether the structured or the heuristic path
\* returned it; output files change in save_result only, and no output file
\* holds an error result.
OutputsHoldCompleteResults ==
    [][ (driver \in {"CROG", "RCM"})
           => ( /\ (pc = "persist" /\ pc' = "persisting")
                      => ( /\ result.kind \in {"structured", "heuristic"}
                           /\ ~result.error
                           /\ result.complete
                           /\ result.question_type = (IF driver = "CROG"
                                                      THEN "Critical Reasoning"
                                                      ELSE "Reading Comprehension") )
                /\ (out' # out => pc \in {"persist", "persisting"})
                /\ (\A x \in Items : out'[x].st # "absent" => ~(out'[x].err)) )
      ]_vars
\* a CROG output file completely written from a heuristic result
OutputsHoldCompleteResultsWitness ==
    /\ driver = "CROG"
    /\ pc = "ckpt"
    /\ result.kind = "heuristic"
    /\ out[Cur].st = "complete"
    /\ \E x \in Items : x # Cur /\ out[x].st = "complete"

\* the identifiers of a checkpoint, files first
FileIds(ck) == [k \in DOMAIN ck.files |-> <<ck.files[k], 0>>]
CkptIds(ck) == FileIds(ck) \o ck.questions
\* x is processed before y in a run
Before(x, y) == \/ PosOf(x[1]) < PosOf(y[1])
                \/ (x[1] = y[1] /\ x[2] < y[2])
\* the loaded identifiers come first, the others follow in processing order
LoadedThenInOrder(ids) ==
    \A a, b \in DOMAIN ids :
        a < b => /\ ids[b] \in loaded => ids[a] \in loaded
                 /\ (ids[a] \notin loaded /\ ids[b] \notin loaded) => Before(ids[a], ids[b])

\* C26: within a run the in-memory lists are only extended at their end, and a
\* checkpoint the run saves holds these lists: every identifier the run loaded
\* is in it, the identifiers added by the run follow the loaded ones in
\* processing order, and no identifier is in it twice.
CheckpointOnlyGrows ==
    [][ /\ (Running /\ pc' \notin {"stopped", "crashed"})
            => /\ \E t \in BoundedSeq(Files, 1) :
                      processed_files' = processed_files \o t
               /\ \E t \in BoundedSeq(Items, QuestionsPerFile) :
                      processed_questions' = processed_questions \o t
        /\ (Running /\ ckptFile' # ckptFile /\ ckptFile'.st = "valid")
            => /\ ckptFile' = save_checkpoint(processed_files', processed_questions')
               /\ loaded \subseteq Range(CkptIds(ckptFile'))
               /\ LoadedThenInOrder(FileIds(ckptFile'))
               /\ LoadedThenInOrder(ckptFile'.questions)
               /\ \A x \in Range(CkptIds(ckptFile')) : Count(CkptIds(ckptFile'), x) = 1
      ]_vars
\* a run that loaded identifiers has saved a checkpoint with more
CheckpointOnlyGrowsWitness ==
    /\ Running
    /\ lastSaveOk
    /\ loaded # {}
    /\ loaded \subseteq Range(CkptIds(ckptFile))
    /\ Range(CkptIds(ckptFile)) \ loaded # {}

\* CROG num_processed, num_errors, num_skipped at a loop boundary: the files
\* visited so far whose process_file_sequentially returned that status
NumWith(st) ==
    Cardinality({k \in DOMAIN html_files : k < i /\ status[<<html_files[k], 0>>] = st})

\* C27 as stated: a CROG run ends only by exhausting its loop (it is never ended
\* by an error), it visits the selected files one after the other in sorted
\* order, at every loop boundary num_processed + num_skipped + num_errors is the
\* number of files visited so far, and when it ends every selected file has been
\* visited and the counts sum to the number of files considered.
CROGRunVisitsEachFileOnce ==
    [][ (driver = "CROG" /\ run' = run /\ pc' # "stopped") =>
          /\ pc' # "crashed"
          /\ i' \in {i, i + 1}
          /\ \A a, b \in DOMAIN html_files' : a < b => html_files'[a] < html_files'[b]
          /\ pc' \in {"loop", "done"}
                => (NumWith("processed") + NumWith("skipped") + NumWith("errored"))' = i' - 1
          /\ pc' = "done" => i' = Len(html_files') + 1
      ]_vars
\* the part of C27 that concerns runs no exception ends: order and counts
CROGRunCountsAddUp ==
    [][ (driver = "CROG" /\ run' = run /\ pc' \notin {"stopped", "crashed"}) =>
          /\ i' \in {i, i + 1}
          /\ \A a, b \in DOMAIN html_files' : a < b => html_files'[a] < html_files'[b]
          /\ pc' \in {"loop", "done"}
                => (NumWith("processed") + NumWith("skipped") + NumWith("errored"))' = i' - 1
          /\ pc' = "done" => i' = Len(html_files') + 1
      ]_vars

\* C28: in the CROG and RC drivers the work list is the sorted listing cut down
\* by exactly one filter: the 0-based indices start..end when start and end are
\* given, start.. when only start is given, otherwise the first limit files,
\* otherwise in test mode the first TEST_MODE_LIMIT files, otherwise everything;
\* end without start changes nothing, and limit and test mode change nothing
\* when start is given.
SelectionPrecedence ==
    (run = 1 /\ driver # "EXAM") =>
        LET last == NumListed - 1
            indices == IF args.start # NoneV /\ args.end # NoneV THEN args.start..args.end
                       ELSE IF args.start # NoneV THEN args.start..last
                       ELSE IF args.limit # NoneV THEN 0..(args.limit - 1)
                       ELSE IF args.test THEN 0..(TEST_MODE_LIMIT - 1)
                       ELSE 0..last
        IN /\ html_files = Sorted({k + 1 : k \in indices \cap (0..last)})
           /\ args.start = NoneV
                 => html_files = Selection(driver, load_checkpoint(ckptFile),
                                           [args EXCEPT !.end = NoneV])
           /\ args.start # NoneV
                 => html_files = Selection(driver, load_checkpoint(ckptFile),
                                           [args EXCEPT !.limit = NoneV, !.test = FALSE])
\* test mode took effect although end was given; start and end took effect
\* although limit was given
SelectionPrecedenceWitness ==
    /\ run = 1
    /\ driver \in {"CROG", "RCM"}
    /\ \/ /\ args.start = NoneV /\ args.end = 0 /\ args.limit = NoneV /\ args.test
          /\ Len(html_files) = TEST_MODE_LIMIT
          /\ TEST_MODE_LIMIT < NumListed
       \/ /\ args.start = 1 /\ args.end = 2 /\ args.limit = 1
          /\ html_files = <<2, 3>>

\* C29 as stated: when two invocations of the same driver overlap on the same
\* checkpoint file, an identifier one invocation has saved is in the checkpoint
\* file after every save of either invocation.
NoCheckpointEntryLost ==
    [][ \A p \in Procs :
            (invocations[p].pc = "saving" /\ invocations'[p].pc = "loop")
                => \A o \in Procs : invocations'[o].saved \subseteq Range(ckptFile'.files)
      ]_vars

\* the entries process_results has written so far
FinalEntries == final.files \cup Range(final.combined_results) \cup Range(final.all_questions)

\* C30: every entry process_results writes to the final directory and to
\* all_questions.json satisfies is_valid_result; a loaded result that is valid is
\* written as it is; one that is not valid is replaced by the output of
\* fix_result when that is not None, which then holds every required key and a
\* non-empty question, correct_answer and explanation; otherwise nothing is
\* written for it; and all_questions.json holds combined_results.
FinalEntriesValid ==
    [][ /\ \A e \in FinalEntries' : is_valid_result(e) = "true"
        /\ final'.all_questions \in {<<>>, final'.combined_results}
        /\ final'.n = final.n + 1
              => LET r == checked'.result
                     new == final'.files \ final.files
                 IN /\ final'.files = final.files \cup Range(final'.combined_results)
                    /\ is_valid_result(r) = "true"
                          => final'.combined_results = Append(final.combined_results, r)
                    /\ is_valid_result(r) = "false"
                          => \/ final'.combined_results = final.combined_results
                             \/ \E e \in FinalEntries' :
                                   /\ final'.combined_results = Append(final.combined_results, e)
                                   /\ r.analysis.type = "dict" /\ "error" \in r.analysis.names
                                   /\ e.analysis.names = required_keys
                                   /\ {"question", "correct_answer", "explanation"}
                                          \subseteq e.analysis.nonempty
        /\ final'.pc = "raised" => final'.combined_results = final.combined_results
      ]_vars
\* process_results has finished after keeping a valid result and a fixed one
FinalEntriesValidWitness ==
    /\ final.pc = "done"
    /\ Len(final.all_questions) = 2
    /\ "error" \in checked.result.analysis.names
    /\ final.all_questions[2] # checked.result
    /\ final.all_questions[1] # final.all_questions[2]
====
